---- MODULE Spec2Model ----
(***************************************************************************)
(* Weather agent demo: the agent loop of src/client.ts (runAgent) talking  *)
(* to the weather tool provider (McpServer with get_coordinates,           *)
(* get_alerts and get_forecast) and, through it, to the geocoding and      *)
(* weather HTTP services.                                                  *)
(*                                                                         *)
(* JavaScript values are records tagged by t: undef, null, str, num, arr,  *)
(* obj.  A string is a sequence of atoms; values supplied by a caller      *)
(* (city, state) are written one character per atom, and each literal      *)
(* piece of a template string is kept as one atom.  Numbers that stand for *)
(* degrees are integers counting 1e-5 degree.                              *)
(***************************************************************************)
EXTENDS Integers, Sequences, FiniteSets, TLC

VARIABLES pc, tools, geminiTools, result, call, toolResponse, finalResponse,
          trace, console, hpc, hreq, hres, fetches, responses

vars == <<pc, tools, geminiTools, result, call, toolResponse, finalResponse,
          trace, console, hpc, hreq, hres, fetches, responses>>

clientVars == <<pc, tools, geminiTools, result, call, toolResponse,
                finalResponse, trace, console>>

serverVars == <<hpc, hreq, hres, fetches, responses>>

----------------------------------------------------------------------------
(* Bounds of the model *)

\* most function-call requests in one model response
MaxCalls == 2

\* most records (alert features, forecast periods) in one HTTP response body
MaxRecords == 2

----------------------------------------------------------------------------
(* JavaScript values *)

Undef == [t |-> "undef"]

Null == [t |-> "null"]

Str(s) == [t |-> "str", v |-> s]

Num(n) == [t |-> "num", v |-> n]

Arr(s) == [t |-> "arr", v |-> s]

Obj(f) == [t |-> "obj", v |-> f]

EmptyObj == Obj(<<>>)

Nullish(x) == x.t \in {"undef", "null"}

\* ToBoolean, as used by `!x`, `x || y`, `if (x)`
Truthy(x) ==
    CASE x.t = "undef" -> FALSE
      [] x.t = "null"  -> FALSE
      [] x.t = "str"   -> x.v # <<>>
      [] x.t = "num"   -> x.v # 0
      [] OTHER         -> TRUE

\* x.k for a value x that is neither undefined nor null
Get(x, k) ==
    CASE x.t = "obj" -> IF k \in DOMAIN x.v THEN x.v[k] ELSE Undef
      [] x.t = "arr" -> IF k = "length" THEN Num(Len(x.v)) ELSE Undef
      [] x.t = "str" -> IF k = "length" THEN Num(Len(x.v)) ELSE Undef
      [] OTHER       -> Undef

\* x?.k
OptGet(x, k) == IF Nullish(x) THEN Undef ELSE Get(x, k)

\* x || y
OrElse(x, y) == IF Truthy(x) THEN x ELSE y

\* `${x}` inside a template literal
Tmpl(x) ==
    CASE x.t = "undef" -> <<"undefined">>
      [] x.t = "null"  -> <<"null">>
      [] x.t = "str"   -> x.v
      [] x.t = "num"   -> <<ToString(x.v)>>
      [] x.t = "arr"   -> <<"[array]">>
      [] OTHER         -> <<"[object Object]">>

\* the sequences over S of length at most n
RECURSIVE SeqUpTo(_, _)
SeqUpTo(S, n) ==
    IF n = 0 THEN {<<>>}
    ELSE LET shorter == SeqUpTo(S, n - 1)
         IN  shorter \cup {Append(s, x) : s \in shorter, x \in S}

\* sub occurs in text as a run of consecutive atoms
Contains(text, sub) ==
    \E i \in 0..(Len(text) - Len(sub)) :
        \A j \in 1..Len(sub) : text[i + j] = sub[j]

TextBlock(text) == [type |-> "text", text |-> text]

ToolResult(text) == [kind |-> "result", content |-> <<TextBlock(text)>>]

----------------------------------------------------------------------------
(* Tool provider: registrations (server.tool) as listTools reports them *)

StringParam == [type |-> "string"]

StateParam == [type |-> "string", minLength |-> 2, maxLength |-> 2]

LatitudeParam == [type |-> "number", minimum |-> -9000000, maximum |-> 9000000]

LongitudeParam == [type |-> "number", minimum |-> -18000000, maximum |-> 18000000]

GetCoordinatesTool ==
    [name |-> "get_coordinates",
     description |-> "Get latitude and longitude for a city. Use this BEFORE getting a forecast.",
     inputSchema |-> [type |-> "object",
                      properties |-> [city |-> StringParam, state |-> StateParam],
                      required |-> <<"city", "state">>]]

GetAlertsTool ==
    [name |-> "get_alerts",
     description |-> "Get weather alerts for a state",
     inputSchema |-> [type |-> "object",
                      properties |-> [state |-> StateParam],
                      required |-> <<"state">>]]

GetForecastTool ==
    [name |-> "get_forecast",
     description |-> "Get weather forecast for a location (requires latitude/longitude)",
     inputSchema |-> [type |-> "object",
                      properties |-> [latitude |-> LatitudeParam,
                                      longitude |-> LongitudeParam],
                      required |-> <<"latitude", "longitude">>]]

RegisteredTools == <<GetCoordinatesTool, GetAlertsTool, GetForecastTool>>

RegisteredNames == {RegisteredTools[i].name : i \in DOMAIN RegisteredTools}

ToolNamed(n) == CHOOSE d \in {RegisteredTools[i] : i \in DOMAIN RegisteredTools} : d.name = n

\* one parameter checked against its declared schema (z.string(), .length(2),
\* z.number().min().max())
ParamAccepts(p, x) ==
    CASE p.type = "string" ->
            /\ x.t = "str"
            /\ ("minLength" \in DOMAIN p => Len(x.v) >= p.minLength)
            /\ ("maxLength" \in DOMAIN p => Len(x.v) <= p.maxLength)
      [] p.type = "number" ->
            /\ x.t = "num"
            /\ x.v >= p.minimum
            /\ x.v <= p.maximum
      [] OTHER -> FALSE

\* the arguments of a call satisfy the named tool's parameter schema
SchemaAccepts(n, args) ==
    /\ n \in RegisteredNames
    /\ args.t = "obj"
    /\ LET schema == ToolNamed(n).inputSchema
       IN  \A i \in DOMAIN schema.required :
               /\ schema.required[i] \in DOMAIN args.v
               /\ ParamAccepts(schema.properties[schema.required[i]],
                               args.v[schema.required[i]])

----------------------------------------------------------------------------
(* Tool provider: helpers *)

NWS_API_BASE == <<"https://api.weather.gov">>

\* an HTTP exchange as fetch() and response.json() show it to the caller
NetworkError == [kind |-> "neterr", body |-> Undef]

HttpError == [kind |-> "status", body |-> Undef]

BadJson == [kind |-> "badjson", body |-> Undef]

Json(b) == [kind |-> "json", body |-> b]

\* makeNWSRequest: the parsed body, or null after any failure
MakeNWSRequest(resp) == IF resp.kind = "json" THEN resp.body ELSE Null

\* x[0]
First(x) ==
    CASE x.t = "arr" -> IF Len(x.v) > 0 THEN x.v[1] ELSE Undef
      [] x.t = "str" -> IF Len(x.v) > 0 THEN Str(<<x.v[1]>>) ELSE Undef
      [] OTHER       -> Get(x, "0")

\* x > 0 for a value read from a length property
Positive(x) == x.t = "num" /\ x.v > 0

\* getCoordinates, after the fetch: the first match, or null
GetCoordinates(resp) ==
    IF resp.kind # "json" THEN Null
    ELSE LET data == resp.body
         IN  IF Truthy(data) /\ Positive(Get(data, "length"))
             THEN First(data)
             ELSE Null

EncodeAtom(c) ==
    CASE c = " " -> "%20"
      [] c = "," -> "%2C"
      [] OTHER   -> c

\* encodeURIComponent
EncodeURIComponent(s) == [i \in DOMAIN s |-> EncodeAtom(s[i])]

UpperAtom(c) ==
    CASE c = "a" -> "A"
      [] c = "c" -> "C"
      [] c = "n" -> "N"
      [] c = "y" -> "Y"
      [] OTHER   -> c

\* String.prototype.toUpperCase
ToUpperCase(s) == [i \in DOMAIN s |-> UpperAtom(s[i])]

Digit(n) == ToString(n % 10)

\* Number.prototype.toFixed(4) of n/100000
ToFixed4(n) ==
    LET a == IF n < 0 THEN -n ELSE n
        r == (a + 5) \div 10
        sign == IF n < 0 THEN <<"-">> ELSE <<>>
    IN  sign \o <<ToString(r \div 10000), ".",
                  Digit(r \div 1000), Digit(r \div 100), Digit(r \div 10), Digit(r)>>

RECURSIVE TrimZeros(_)
TrimZeros(s) ==
    IF s # <<>> /\ s[Len(s)] = "0" THEN TrimZeros(SubSeq(s, 1, Len(s) - 1)) ELSE s

\* `${n}` for a number of degrees n/100000
DegreesText(n) ==
    LET a == IF n < 0 THEN -n ELSE n
        frac == TrimZeros(<<Digit(a \div 10000), Digit(a \div 1000), Digit(a \div 100),
                            Digit(a \div 10), Digit(a)>>)
        sign == IF n < 0 THEN <<"-">> ELSE <<>>
    IN  sign \o <<ToString(a \div 100000)>>
             \o (IF frac = <<>> THEN <<>> ELSE <<".">> \o frac)

RECURSIVE Join(_, _)
\* Array.prototype.join
Join(texts, sep) ==
    IF texts = <<>> THEN <<>>
    ELSE IF Len(texts) = 1 THEN texts[1]
    ELSE texts[1] \o sep \o Join(Tail(texts), sep)

GeocodeUrl(city, state) ==
    <<"https://nominatim.openstreetmap.org/search?q=">> \o EncodeURIComponent(city)
        \o <<",">> \o EncodeURIComponent(state) \o <<"&format=json&limit=1">>

AlertsUrl(stateCode) == NWS_API_BASE \o <<"/alerts?area=">> \o stateCode

PointsUrl(latitude, longitude) ==
    NWS_API_BASE \o <<"/points/">> \o ToFixed4(latitude) \o <<",">> \o ToFixed4(longitude)

----------------------------------------------------------------------------
(* Tool provider: the three handlers, from the point their fetch returned *)

\* a handler that ended by throwing
Threw == [kind |-> "threw", content |-> <<>>]

\* variant: the not-found text does not name the request
GetCoordinatesHandlerAnonymous(city, state, coords) ==
    IF ~Truthy(coords)
    THEN ToolResult(<<"Could not find coordinates.">>)
    ELSE ToolResult(<<"Location: ">> \o Tmpl(Get(coords, "display_name"))
                        \o <<"\nLatitude: ">> \o Tmpl(Get(coords, "lat"))
                        \o <<"\nLongitude: ">> \o Tmpl(Get(coords, "lon")))

\* get_coordinates, given what getCoordinates returned
GetCoordinatesHandler(city, state, coords) ==
    IF ~Truthy(coords)
    THEN ToolResult(<<"Could not find coordinates for ">> \o city \o <<", ">>
                        \o state \o <<".">>)
    ELSE ToolResult(<<"Location: ">> \o Tmpl(Get(coords, "display_name"))
                        \o <<"\nLatitude: ">> \o Tmpl(Get(coords, "lat"))
                        \o <<"\nLongitude: ">> \o Tmpl(Get(coords, "lon")))

\* `f.properties.event` and its siblings can be evaluated
AlertReadable(f) == ~Nullish(f) /\ ~Nullish(Get(f, "properties"))

FormatAlert(f) ==
    <<"Event: ">> \o Tmpl(Get(Get(f, "properties"), "event"))
        \o <<"\nSeverity: ">> \o Tmpl(Get(Get(f, "properties"), "severity"))
        \o <<"\nHeadline: ">> \o Tmpl(Get(Get(f, "properties"), "headline"))
        \o <<"\n---">>

\* variant: an empty feature list is reported like a failed request
GetAlertsHandlerConflated(stateCode, alertsData) ==
    LET features == IF Truthy(alertsData)
                    THEN OrElse(Get(alertsData, "features"), Arr(<<>>))
                    ELSE Arr(<<>>)
    IN  IF Get(features, "length") = Num(0)
        THEN ToolResult(<<"Failed to retrieve alerts data">>)
        ELSE IF features.t # "arr" \/ \E i \in DOMAIN features.v :
                                          ~AlertReadable(features.v[i])
        THEN Threw
        ELSE ToolResult(<<"Active alerts for ">> \o stateCode \o <<":\n\n">>
                \o Join([i \in DOMAIN features.v |-> FormatAlert(features.v[i])],
                        <<"\n">>))

\* get_alerts, given what makeNWSRequest returned
GetAlertsHandler(stateCode, alertsData) ==
    IF ~Truthy(alertsData)
    THEN ToolResult(<<"Failed to retrieve alerts data">>)
    ELSE LET features == OrElse(Get(alertsData, "features"), Arr(<<>>))
         IN  IF Get(features, "length") = Num(0)
             THEN ToolResult(<<"No active alerts for ">> \o stateCode)
             ELSE IF features.t # "arr" \/ \E i \in DOMAIN features.v :
                                               ~AlertReadable(features.v[i])
             THEN Threw
             ELSE ToolResult(<<"Active alerts for ">> \o stateCode \o <<":\n\n">>
                     \o Join([i \in DOMAIN features.v |-> FormatAlert(features.v[i])],
                             <<"\n">>))

\* pointsData?.properties?.forecast
ForecastLocator(pointsData) == OptGet(OptGet(pointsData, "properties"), "forecast")

OutsideCoverage == ToolResult(<<"Failed to get forecast URL. Location might be outside US.">>)

\* the atom "[U+00B0]" stands for the degree sign of the template
FormatPeriod(period) ==
    Tmpl(Get(period, "name")) \o <<": ">> \o Tmpl(Get(period, "temperature"))
        \o <<"[U+00B0]">> \o Tmpl(Get(period, "temperatureUnit")) \o <<" - ">>
        \o Tmpl(Get(period, "shortForecast"))

\* get_forecast, given what the second makeNWSRequest returned
GetForecastHandler(latitude, longitude, forecastData) ==
    LET periods == OrElse(OptGet(OptGet(forecastData, "properties"), "periods"), Arr(<<>>))
    IN  IF Get(periods, "length") = Num(0)
        THEN ToolResult(<<"No forecast periods available">>)
        ELSE IF periods.t # "arr" \/ \E i \in DOMAIN periods.v : Nullish(periods.v[i])
        THEN Threw
        ELSE ToolResult(<<"Forecast for ">> \o DegreesText(latitude) \o <<", ">>
                \o DegreesText(longitude) \o <<":\n\n">>
                \o Join([i \in DOMAIN periods.v |-> FormatPeriod(periods.v[i])], <<"\n">>))

----------------------------------------------------------------------------
(* What the external collaborators may answer *)

Responses(bodies) == {NetworkError, HttpError, BadJson} \cup {Json(b) : b \in bodies}

GeoMatch ==
    Obj([lat |-> Str(<<"37.6820583">>), lon |-> Str(<<"-121.7680531">>),
         display_name |-> Str(<<"Livermore, Alameda County, California, United States">>)])

GeoBodies ==
    {Arr(s) : s \in SeqUpTo({GeoMatch, EmptyObj}, MaxRecords)} \cup {EmptyObj, Null}

AlertFeature ==
    Obj([properties |-> Obj([event |-> Str(<<"Flood Watch">>),
                             severity |-> Str(<<"Moderate">>),
                             headline |-> Str(<<"Flood Watch issued for Alameda County">>)])])

AlertsBodies ==
    {Obj([features |-> Arr(s)]) :
        s \in SeqUpTo({AlertFeature, Obj([properties |-> EmptyObj]), EmptyObj}, MaxRecords)}
    \cup {EmptyObj, Null}

ForecastUrl == <<"https://api.weather.gov/gridpoints/MTR/107,84/forecast">>

PointsBodies ==
    {Obj([properties |-> Obj([forecast |-> Str(ForecastUrl)])]),
     Obj([properties |-> EmptyObj]), EmptyObj, Null}

Period ==
    Obj([name |-> Str(<<"Tonight">>), temperature |-> Num(52),
         temperatureUnit |-> Str(<<"F">>), shortForecast |-> Str(<<"Rain Likely">>)])

ForecastBodies ==
    {Obj([properties |-> Obj([periods |-> Arr(s)])]) :
        s \in SeqUpTo({Period, EmptyObj, Null}, MaxRecords)}
    \cup {Obj([properties |-> EmptyObj]), EmptyObj}

----------------------------------------------------------------------------
(* What the model may answer *)

FunctionCall(n, a) == [t |-> "obj", name |-> n, args |-> a]

Livermore == <<"L", "i", "v", "e", "r", "m", "o", "r", "e">>

SanJose == <<"S", "a", "n", " ", "J", "o", "s", "e">>

ModelCalls ==
    {FunctionCall("get_coordinates", Obj([city |-> Str(Livermore), state |-> Str(<<"C", "A">>)])),
     FunctionCall("get_coordinates", Obj([city |-> Str(SanJose), state |-> Str(<<"c", "a">>)])),
     FunctionCall("get_alerts", Obj([state |-> Str(<<"n", "y">>)])),
     FunctionCall("get_alerts", Obj([state |-> Str(<<"C", "a", "l">>)])),
     FunctionCall("get_forecast", Obj([latitude |-> Num(3768206), longitude |-> Num(-12176804)])),
     FunctionCall("get_time", EmptyObj)}

ModelTexts == {<<>>, <<"Yes, rain is likely in Livermore tonight.">>}

\* a response of the model: its text and the function calls it asks for
FirstResponses ==
    {[text |-> x, functionCalls |-> cs] : x \in ModelTexts, cs \in SeqUpTo(ModelCalls, MaxCalls)}

FinalResponses ==
    {[text |-> <<"Yes, rain is likely in Livermore tonight.">>, functionCalls |-> cs] :
        cs \in SeqUpTo({FunctionCall("get_alerts", Obj([state |-> Str(<<"C", "A">>)]))}, 1)}

NoResponse == [text |-> <<>>, functionCalls |-> <<>>]

\* the tool lists a tool provider build may report: the registered tools, or
\* some of them (an earlier build registers get_alerts and get_forecast only),
\* in any order
ToolLists ==
    {s \in SeqUpTo({RegisteredTools[i] : i \in DOMAIN RegisteredTools}, Len(RegisteredTools)) :
        /\ s # <<>>
        /\ \A i, j \in DOMAIN s : i # j => s[i] # s[j]}

----------------------------------------------------------------------------
(* Agent loop: pure parts of runAgent *)

SchemaTypeOBJECT == "OBJECT"

\* variant: the whole input schema is passed as the properties
FunctionDeclarationRaw(tool) ==
    [name |-> tool.name,
     description |-> tool.description,
     parameters |-> [type |-> SchemaTypeOBJECT,
                     properties |-> tool.inputSchema,
                     required |-> tool.inputSchema.required]]

\* one function declaration of geminiTools
FunctionDeclaration(tool) ==
    [name |-> tool.name,
     description |-> tool.description,
     parameters |-> [type |-> SchemaTypeOBJECT,
                     properties |-> tool.inputSchema.properties,
                     required |-> tool.inputSchema.required]]

\* tools.map(tool => ({...}))
ToFunctionDeclarations(ts) == [i \in DOMAIN ts |-> FunctionDeclaration(ts[i])]

\* variant: reads the last function call instead of the first
FirstCallLast(response) ==
    IF response.functionCalls = <<>> THEN Undef
    ELSE response.functionCalls[Len(response.functionCalls)]

\* result.response.functionCalls()?.[0]
FirstCall(response) ==
    IF response.functionCalls = <<>> THEN Undef ELSE response.functionCalls[1]

\* variant: the function response is keyed by a fixed name
FunctionResponseMisnamed(c, tr) ==
    [functionResponse |-> [name |-> "tool", response |-> [content |-> tr.content]]]

\* the message that carries a tool result back to the model
FunctionResponse(c, tr) ==
    [functionResponse |-> [name |-> c.name, response |-> [content |-> tr.content]]]

Prompt == <<"Is it going to rain in Livermore, CA?">>

Request(op, arg) == [e |-> "request", op |-> op, arg |-> arg]

Settled(op) == [e |-> "result", op |-> op, arg |-> <<>>]

Line(stream, what, data) == [stream |-> stream, what |-> what, data |-> data]

----------------------------------------------------------------------------
(* State after construction *)

NoResult == [kind |-> "none", content |-> <<>>]

NoToolResponse == [content |-> <<>>, isError |-> FALSE]

Init ==
    /\ pc = "start"
    /\ tools = <<>>
    /\ geminiTools = <<>>
    /\ result = NoResponse
    /\ call = Undef
    /\ toolResponse = NoToolResponse
    /\ finalResponse = NoResponse
    /\ trace = <<>>
    /\ console = <<>>
    /\ hpc = "idle"
    /\ hreq = [name |-> "", arguments |-> EmptyObj]
    /\ hres = NoResult
    /\ fetches = <<>>
    /\ responses = <<>>

----------------------------------------------------------------------------
(* Agent loop: runAgent, one action per stretch of code between two awaits *)

Awaiting == {"await_connect", "await_listTools", "await_first", "await_tool", "await_final"}

\* runAgent up to `await mcpClient.connect(transport)`
Start ==
    /\ pc = "start"
    /\ pc' = "await_connect"
    /\ trace' = Append(trace, Request("connect", <<>>))
    /\ UNCHANGED <<tools, geminiTools, result, call, toolResponse, finalResponse, console>>
    /\ UNCHANGED serverVars

\* connect resolved; up to `await mcpClient.listTools()`
AfterConnect ==
    /\ pc = "await_connect"
    /\ pc' = "await_listTools"
    /\ trace' = trace \o <<Settled("connect"), Request("listTools", <<>>)>>
    /\ UNCHANGED <<tools, geminiTools, result, call, toolResponse, finalResponse, console>>
    /\ UNCHANGED serverVars

\* listTools resolved; bridge the tools, start the chat, send the prompt
AfterListTools ==
    /\ pc = "await_listTools"
    /\ \E ts \in ToolLists :
          /\ tools' = ts
          /\ geminiTools' = <<[functionDeclarations |-> ToFunctionDeclarations(ts)]>>
    /\ console' = Append(console, Line("log", "User:", Prompt))
    /\ trace' = trace \o <<Settled("listTools"), Request("sendMessage", Prompt)>>
    /\ pc' = "await_first"
    /\ UNCHANGED <<result, call, toolResponse, finalResponse>>
    /\ UNCHANGED serverVars

\* first model response arrived; dispatch its first function call, if any
AfterFirstMessage ==
    /\ pc = "await_first"
    /\ \E r \in FirstResponses :
          /\ result' = r
          /\ call' = FirstCall(r)
    /\ IF Truthy(call')
       THEN /\ console' = Append(console, Line("log", "Agent wants to call:", call'))
            /\ trace' = trace \o <<Settled("sendMessage"),
                                   Request("callTool", [name |-> call'.name,
                                                        arguments |-> call'.args])>>
            /\ pc' = "await_tool"
       ELSE /\ console' = console
            /\ trace' = Append(trace, Settled("sendMessage"))
            /\ pc' = "returned"
    /\ UNCHANGED <<tools, geminiTools, toolResponse, finalResponse>>
    /\ UNCHANGED serverVars

\* what callTool resolves to once the tool provider has answered: the handler's
\* content, or an error result when the provider refused the call or the
\* handler threw
CallToolResult(r) ==
    IF r.kind = "result"
    THEN [content |-> r.content, isError |-> FALSE]
    ELSE [content |-> <<TextBlock(<<"[error message]">>)>>, isError |-> TRUE]

\* callTool resolved; send the function response and ask for the final answer
AfterCallTool ==
    /\ pc = "await_tool"
    /\ hpc = "done"
    /\ toolResponse' = CallToolResult(hres)
    /\ trace' = trace \o <<Settled("callTool"),
                           Request("sendMessage", <<FunctionResponse(call, toolResponse')>>)>>
    /\ pc' = "await_final"
    /\ UNCHANGED <<tools, geminiTools, result, call, finalResponse, console>>
    /\ UNCHANGED serverVars

\* final model response arrived; print its text
AfterFinalMessage ==
    /\ pc = "await_final"
    /\ \E r \in FinalResponses : finalResponse' = r
    /\ console' = Append(console, Line("log", "Agent:", finalResponse'.text))
    /\ trace' = Append(trace, Settled("sendMessage"))
    /\ pc' = "returned"
    /\ UNCHANGED <<tools, geminiTools, result, call, toolResponse>>
    /\ UNCHANGED serverVars

\* variant: the rejection is logged where it happens and the turn goes on waiting
RejectSwallowed ==
    /\ pc \in Awaiting
    /\ console' = Append(console, Line("error", "Error", <<pc>>))
    /\ UNCHANGED <<pc, tools, geminiTools, result, call, toolResponse, finalResponse, trace>>
    /\ UNCHANGED serverVars

\* the awaited promise rejected: runAgent().catch(console.error)
Reject ==
    /\ pc \in Awaiting
    /\ console' = Append(console, Line("error", "Error", <<pc>>))
    /\ pc' = "rejected"
    /\ UNCHANGED <<tools, geminiTools, result, call, toolResponse, finalResponse, trace>>
    /\ UNCHANGED serverVars

----------------------------------------------------------------------------
(* Tool provider: a tools/call request served *)

Fetch(api, url) == [api |-> api, url |-> url]

Refused == [kind |-> "refused", content |-> <<>>]

\* the request on the wire
CallToolRequest == [name |-> call.name, arguments |-> call.args]

Arg(k) == hreq.arguments.v[k].v

\* no registered tool of that name, or arguments the schema rejects: no handler runs
Refuse ==
    /\ pc = "await_tool" /\ hpc = "idle"
    /\ ~SchemaAccepts(CallToolRequest.name, CallToolRequest.arguments)
    /\ hreq' = CallToolRequest
    /\ hres' = Refused
    /\ hpc' = "done"
    /\ UNCHANGED <<fetches, responses>>
    /\ UNCHANGED clientVars

\* get_coordinates up to the fetch inside getCoordinates
GetCoordinatesStart ==
    /\ pc = "await_tool" /\ hpc = "idle"
    /\ SchemaAccepts(CallToolRequest.name, CallToolRequest.arguments)
    /\ CallToolRequest.name = "get_coordinates"
    /\ hreq' = CallToolRequest
    /\ fetches' = Append(fetches, Fetch("geocode", GeocodeUrl(Arg("city")', Arg("state")')))
    /\ hpc' = "await_geocode"
    /\ UNCHANGED <<hres, responses>>
    /\ UNCHANGED clientVars

GetCoordinatesReturn ==
    /\ hpc = "await_geocode"
    /\ \E resp \in Responses(GeoBodies) :
          /\ responses' = Append(responses, resp)
          /\ hres' = GetCoordinatesHandler(Arg("city"), Arg("state"), GetCoordinates(resp))
    /\ hpc' = "done"
    /\ UNCHANGED <<hreq, fetches>>
    /\ UNCHANGED clientVars

\* get_alerts up to the fetch inside makeNWSRequest
GetAlertsStart ==
    /\ pc = "await_tool" /\ hpc = "idle"
    /\ SchemaAccepts(CallToolRequest.name, CallToolRequest.arguments)
    /\ CallToolRequest.name = "get_alerts"
    /\ hreq' = CallToolRequest
    /\ fetches' = Append(fetches, Fetch("alerts", AlertsUrl(ToUpperCase(Arg("state")'))))
    /\ hpc' = "await_alerts"
    /\ UNCHANGED <<hres, responses>>
    /\ UNCHANGED clientVars

GetAlertsReturn ==
    /\ hpc = "await_alerts"
    /\ \E resp \in Responses(AlertsBodies) :
          /\ responses' = Append(responses, resp)
          /\ hres' = GetAlertsHandler(ToUpperCase(Arg("state")), MakeNWSRequest(resp))
    /\ hpc' = "done"
    /\ UNCHANGED <<hreq, fetches>>
    /\ UNCHANGED clientVars

\* get_forecast up to the fetch of the points resource
GetForecastStart ==
    /\ pc = "await_tool" /\ hpc = "idle"
    /\ SchemaAccepts(CallToolRequest.name, CallToolRequest.arguments)
    /\ CallToolRequest.name = "get_forecast"
    /\ hreq' = CallToolRequest
    /\ fetches' = Append(fetches, Fetch("points", PointsUrl(Arg("latitude")', Arg("longitude")')))
    /\ hpc' = "await_points"
    /\ UNCHANGED <<hres, responses>>
    /\ UNCHANGED clientVars

\* variant: the locator is not tested before the second request
HasLocatorUnchecked(pointsData) == TRUE

\* `if (!pointsData?.properties?.forecast)` is not taken
HasLocator(pointsData) == Truthy(ForecastLocator(pointsData))

\* points lookup returned: fail, or fetch the forecast resource
GetForecastPoints ==
    /\ hpc = "await_points"
    /\ \E resp \in Responses(PointsBodies) :
          LET pointsData == MakeNWSRequest(resp)
          IN  /\ responses' = Append(responses, resp)
              /\ IF HasLocator(pointsData)
                 THEN /\ fetches' = Append(fetches,
                                           Fetch("forecast", Tmpl(ForecastLocator(pointsData))))
                      /\ hpc' = "await_forecast"
                      /\ UNCHANGED hres
                 ELSE /\ hres' = OutsideCoverage
                      /\ hpc' = "done"
                      /\ UNCHANGED fetches
    /\ UNCHANGED hreq
    /\ UNCHANGED clientVars

GetForecastPeriods ==
    /\ hpc = "await_forecast"
    /\ \E resp \in Responses(ForecastBodies) :
          /\ responses' = Append(responses, resp)
          /\ hres' = GetForecastHandler(Arg("latitude"), Arg("longitude"), MakeNWSRequest(resp))
    /\ hpc' = "done"
    /\ UNCHANGED <<hreq, fetches>>
    /\ UNCHANGED clientVars

----------------------------------------------------------------------------

Next ==
    \/ Start
    \/ AfterConnect
    \/ AfterListTools
    \/ AfterFirstMessage
    \/ AfterCallTool
    \/ AfterFinalMessage
    \/ Reject
    \/ Refuse
    \/ GetCoordinatesStart
    \/ GetCoordinatesReturn
    \/ GetAlertsStart
    \/ GetAlertsReturn
    \/ GetForecastStart
    \/ GetForecastPoints
    \/ GetForecastPeriods

Spec == Init /\ [][Next]_vars

----------------------------------------------------------------------------
(* Properties *)

RequestsOf(op) == {i \in DOMAIN trace : trace[i].e = "request" /\ trace[i].op = op}

ToolCalled == RequestsOf("callTool") # {}

DiscoveredNames == {tools[i].name : i \in DOMAIN tools}

TextOf(r) == r.content[1].text

\* C1: in one turn callTool is issued at most once and the model is messaged
\* at most twice; the call dispatched is the first function call of the first
\* model response, with its name and its arguments; a function call in the
\* final response is never dispatched (the provider serves at most the one
\* request).
C1_SingleCallPerTurn ==
    /\ Cardinality(RequestsOf("callTool")) <= 1
    /\ Cardinality(RequestsOf("sendMessage")) <= 2
    /\ \A i \in RequestsOf("callTool") :
          /\ result.functionCalls # <<>>
          /\ trace[i].arg = [name |-> result.functionCalls[1].name,
                             arguments |-> result.functionCalls[1].args]
    /\ hpc # "idle" => /\ ToolCalled
                       /\ hreq = [name |-> result.functionCalls[1].name,
                                  arguments |-> result.functionCalls[1].args]
    /\ pc = "returned" /\ finalResponse.functionCalls # <<>> =>
          /\ Cardinality(RequestsOf("callTool")) = 1
          /\ trace[Len(trace)] = Settled("sendMessage")

\* C1 witness: the first response asked for two different calls, the final
\* response asked for another one, and the turn is over.
C1_Witness ==
    /\ pc = "returned"
    /\ Len(result.functionCalls) >= 2
    /\ result.functionCalls[1] # result.functionCalls[2]
    /\ finalResponse.functionCalls # <<>>

\* C2: a call request naming a tool that listTools did not return is never
\* sent to the tool provider.
C2_UnknownToolNotDispatched ==
    \A i \in RequestsOf("callTool") : trace[i].arg.name \in DiscoveredNames

\* C3: when the first model response holds no function call, the turn ends
\* without tool call and without second model request, and the text of that
\* response is delivered as the final answer.
C3_TextAnswerDelivered ==
    pc = "returned" /\ result.functionCalls = <<>> =>
        /\ ~ToolCalled
        /\ Cardinality(RequestsOf("sendMessage")) = 1
        /\ \E i \in DOMAIN console :
              console[i].what = "Agent:" /\ console[i].data = result.text

StepOrder ==
    <<"connect", "connect", "listTools", "listTools", "sendMessage",
      "sendMessage", "callTool", "callTool", "sendMessage", "sendMessage">>

\* C4: in a turn with a tool call the steps run in the order connect,
\* listTools, first model request, callTool, function response, final answer,
\* each requested only after the previous one settled; the function response
\* names the tool of the call request and carries the content callTool
\* returned; the final answer is printed last.
C4_StrictSequence ==
    ToolCalled =>
        /\ Len(trace) <= Len(StepOrder)
        /\ \A i \in DOMAIN trace :
              /\ trace[i].op = StepOrder[i]
              /\ trace[i].e = (IF i % 2 = 1 THEN "request" ELSE "result")
        /\ Len(trace) >= 9 =>
              /\ hpc = "done"
              /\ trace[9].arg[1].functionResponse.name = trace[7].arg.name
              /\ trace[9].arg[1].functionResponse.response.content = toolResponse.content
              /\ hres.kind = "result" =>
                    trace[9].arg[1].functionResponse.response.content = hres.content
        /\ (\E i \in DOMAIN console : console[i].what = "Agent:") =>
              /\ Len(trace) = 10
              /\ console[Len(console)] = Line("log", "Agent:", finalResponse.text)

\* C4 witness: a whole turn with a tool call whose handler returned a result.
C4_Witness ==
    /\ pc = "returned"
    /\ ToolCalled
    /\ hres.kind = "result"
    /\ hreq.name = "get_forecast"
    /\ Len(fetches) = 2

StepOp(p) ==
    CASE p = "await_connect"   -> "connect"
      [] p = "await_listTools" -> "listTools"
      [] p = "await_first"     -> "sendMessage"
      [] p = "await_tool"      -> "callTool"
      [] p = "await_final"     -> "sendMessage"

StepIndex(p) ==
    CASE p = "await_connect"   -> 1
      [] p = "await_listTools" -> 3
      [] p = "await_first"     -> 5
      [] p = "await_tool"      -> 7
      [] p = "await_final"     -> 9

HandlerRan == hpc = "done" /\ hres.kind # "refused"

TransportFailed(resp) == resp.kind \in {"neterr", "status", "badjson"}

\* C6: whatever the external data source answered, a handler that ran ends
\* with a ToolResult holding one non-empty text block; it never throws.
C6_NoExceptionEscapesHandler ==
    HandlerRan =>
        /\ hres.kind = "result"
        /\ Len(hres.content) = 1
        /\ hres.content[1].type = "text"
        /\ hres.content[1].text # <<>>

\* the points lookup failed or its body holds no forecast locator
PointsLookupFailed(resp) ==
    \/ TransportFailed(resp)
    \/ resp.body.t # "obj"
    \/ "properties" \notin DOMAIN resp.body.v
    \/ resp.body.v.properties.t # "obj"
    \/ "forecast" \notin DOMAIN resp.body.v.properties.v
    \/ resp.body.v.properties.v.forecast \in {Null, Undef, Str(<<>>), Num(0)}

\* C7: a get_forecast invocation whose points lookup failed or gave no locator
\* ends with the text that the location might be outside the covered region
\* and never requests the periods; an invocation issues at most two requests,
\* the points lookup first and once, the periods request second and only to
\* the locator the points lookup returned.
C7_ForecastOneShot ==
    hreq.name = "get_forecast" /\ hpc # "idle" /\ hres.kind # "refused" =>
        /\ Len(fetches) <= 2
        /\ Len(responses) <= Len(fetches)
        /\ fetches[1].api = "points"
        /\ Len(fetches) = 2 =>
              /\ fetches[2].api = "forecast"
              /\ ~PointsLookupFailed(responses[1])
              /\ fetches[2].url = responses[1].body.v.properties.v.forecast.v
        /\ Len(responses) >= 1 /\ PointsLookupFailed(responses[1]) =>
              /\ hpc = "done"
              /\ Len(fetches) = 1
              /\ hres.kind = "result"
              /\ TextOf(hres) = <<"Failed to get forecast URL. Location might be outside US.">>

\* C7 witness: the points lookup answered 200 with a body without locator.
C7_Witness ==
    /\ hreq.name = "get_forecast"
    /\ hpc = "done"
    /\ responses = <<Json(Obj([properties |-> EmptyObj]))>>

\* the alerts request succeeded and its body holds zero features
ZeroFeatures(resp) ==
    /\ resp.kind = "json"
    /\ resp.body.t = "obj"
    /\ "features" \in DOMAIN resp.body.v => resp.body.v.features = Arr(<<>>)

\* C8: the text get_alerts returns for a successful request with zero features
\* differs from the text it returns for the same state when the request fails.
C8_EmptyDiffersFromFailure ==
    hreq.name = "get_alerts" /\ HandlerRan /\ ZeroFeatures(responses[1]) =>
        /\ hres.kind = "result"
        /\ \A f \in {NetworkError, HttpError, BadJson} :
              LET failed == GetAlertsHandler(ToUpperCase(Arg("state")), MakeNWSRequest(f))
              IN  failed.kind = "result" /\ TextOf(failed) # TextOf(hres)

\* C8 witness: get_alerts answered a body with an empty feature list.
C8_Witness ==
    /\ hreq.name = "get_alerts"
    /\ HandlerRan
    /\ responses = <<Json(Obj([features |-> Arr(<<>>)]))>>

\* C9: the bridged declarations are as many as the tools and in their order;
\* each keeps its tool's name and description, is typed as the object tag, and
\* requires only parameters that its properties declare.
C9_BridgePreserves ==
    geminiTools # <<>> =>
        /\ pc \notin {"start", "await_connect", "await_listTools"}
        /\ Len(geminiTools) = 1
        /\ LET d == geminiTools[1].functionDeclarations
           IN  /\ Len(d) = Len(tools)
               /\ \A i \in DOMAIN d :
                     /\ d[i].name = tools[i].name
                     /\ d[i].description = tools[i].description
                     /\ d[i].parameters.type = "OBJECT"
                     /\ \A j \in DOMAIN d[i].parameters.required :
                           d[i].parameters.required[j] \in DOMAIN d[i].parameters.properties

\* C9 witness: all three tools were listed, in another order than registered.
C9_Witness ==
    /\ pc = "await_first"
    /\ Len(tools) = 3
    /\ tools # RegisteredTools

\* the geocoding lookup failed in transport or matched nothing
NoMatch(resp) == TransportFailed(resp) \/ resp.body = Arr(<<>>)

CoordinateValues == {GeoMatch.v.lat.v, GeoMatch.v.lon.v}

\* C10: a get_coordinates invocation issues exactly one lookup; when the
\* lookup fails or matches nothing the handler returns a text that names the
\* requested city and state and holds no coordinate value.
C10_CoordinatesNotFound ==
    hreq.name = "get_coordinates" /\ hpc # "idle" /\ hres.kind # "refused" =>
        /\ Len(fetches) = 1
        /\ fetches[1] = Fetch("geocode", GeocodeUrl(Arg("city"), Arg("state")))
        /\ hpc = "done" /\ NoMatch(responses[1]) =>
              /\ hres.kind = "result"
              /\ Contains(TextOf(hres), Arg("city"))
              /\ Contains(TextOf(hres), Arg("state"))
              /\ \A v \in CoordinateValues : ~Contains(TextOf(hres), v)
              /\ ~Contains(TextOf(hres), <<"\nLatitude: ">>)
              /\ ~Contains(TextOf(hres), <<"\nLongitude: ">>)

\* C10 witness: the lookup for San Jose answered an empty array.
C10_Witness ==
    /\ hreq.name = "get_coordinates"
    /\ hpc = "done"
    /\ Arg("city") = SanJose
    /\ responses = <<Json(Arr(<<>>))>>

====
